---- MODULE Spec2Model ----
(***************************************************************************)
(* Model of "Frequency regulation setup.py": the swing-equation simulator  *)
(* sim_freq_response with its right-hand side fder, the nadir extractor    *)
(* find_nadir, the load-excess curve of plot_freq_response and the entry   *)
(* point freq_response_interact.                                           *)
(*                                                                         *)
(* Units.  Floating point is modelled in fixed point:                      *)
(*   time       in ticks, TimeScale ticks per second (0.01 s);             *)
(*   frequency  in mHz  (Scale units per Hz);                              *)
(*   power      in milli-pu (Scale units per pu);                          *)
(*   droop s    in percent (PerCent units per 1.0);                        *)
(*   H, T_fcr   in whole seconds.                                          *)
(* Division rounds (\div) where floating point would round.  A division    *)
(* by zero of numpy scalars yields nan/inf, not an exception: it is        *)
(* modelled by the flag "finite" of the value fder returns.                *)
(***************************************************************************)
EXTENDS Integers, Sequences, FiniteSets, TLC

VARIABLES
    pc,         \* position of the program
    args,       \* the arguments of the current call
    K,          \* droop gain, a rational [num, den] in pu/Hz
    f_lim,      \* steady-state floor (mHz)
    sol_t,      \* sol.t: sample times produced by the integrator (ticks)
    sol_y,      \* the state vector at each sample (transpose of sol.y)
    success,    \* sol.success
    last_eval,  \* the latest evaluation of fder by the integrator
    ret,        \* what sim_freq_response returned: [t, f, P_fcr, f_lim]
    err,        \* the exception that ended the call, "" if none
    fig,        \* what plot_freq_response computed for display
    f_in,       \* argument of a stand-alone find_nadir call
    nadir_out   \* its result

vars == <<pc, args, K, f_lim, sol_t, sol_y, success, last_eval, ret, err, fig,
          f_in, nadir_out>>

---------------------------------------------------------------------------
(* Units of the fixed-point representation *)
TimeScale == 10 * 10
Scale     == 10 * 100
PerCent   == 10 * 10

(* Program constants *)
f0    == 50
t_ini == -1
t_fin == 10
Sg    == 1
f_ini == 50
P_fcr_ini == 0
StepDivisor == 100
FourSeconds == 4

t_iniT == t_ini * TimeScale
t_finT == t_fin * TimeScale
max_step == (t_finT - t_iniT) \div StepDivisor
NadirMargin == Scale \div 1000          \* 0.001 Hz
BlackoutLevel == (f0 * Scale) \div 1000 \* f0*1e-3
Inf == t_finT + 1                       \* np.inf: later than every time of the window

(* Bounds of the explored inputs *)
MaxH    == 2
MaxTfcr == 1
MaxLen  == 4
MaxVal  == 3

LoadSteps == {-100, 100, 140}           \* ΔP_load in milli-pu
Droops    == {0, 5, 10}                 \* s in percent
Hs        == 0..MaxH
Tfcrs     == 0..MaxTfcr
Options   == {"permanent", "4 s", "2 s"}

Num(v) == [isnum |-> TRUE, v |-> v]
Str    == [isnum |-> FALSE, v |-> 0]

Last(q) == q[Len(q)]
SeqMin(q) == CHOOSE m \in {q[i] : i \in 1..Len(q)} : \A i \in 1..Len(q) : m <= q[i]

---------------------------------------------------------------------------
(* Documented domain of sim_freq_response: H > 0, s > 0, T_fcr > 0 *)
DocumentedDomain(a) == a.H > 0 /\ a.s > 0 /\ a.T_fcr > 0

(* K = Sg/(f0*s) if fcr else 0.0, as a rational in pu/Hz *)
Kgain_nonzero(a) ==
    IF a.fcr THEN [num |-> Sg * PerCent, den |-> f0 * a.s]
             ELSE [num |-> Sg, den |-> 1]

Kgain(a) ==
    IF a.fcr THEN [num |-> Sg * PerCent, den |-> f0 * a.s]
             ELSE [num |-> 0, den |-> 1]

(* f_lim = f0 - ΔP_load/K if fcr else 0 *)
f_limit_mul(a, k) ==
    IF a.fcr THEN f0 * Scale - (a.dP_load * k.num) \div k.den
             ELSE 0

f_limit(a, k) ==
    IF a.fcr THEN f0 * Scale - (a.dP_load * k.den) \div k.num
             ELSE 0

(* K*Δf in milli-pu *)
KDf(k, Df) == (k.num * Df) \div k.den

(* Initial conditions *)
x_ini_off(a) ==
    IF a.fcr_lag THEN <<f_ini * Scale, P_fcr_ini + 1>> ELSE <<f_ini * Scale - 1>>

x_ini(a) ==
    IF a.fcr_lag THEN <<f_ini * Scale, P_fcr_ini>> ELSE <<f_ini * Scale>>

(* The load test of fder: t>=0 and t<T_ΔP.  The second comparison is made  *)
(* only when the first holds; against a str it raises TypeError.           *)
LoadRaises(t, a) == t >= 0 /\ ~a.T_dP.isnum

LoadOn_closed(t, a) == t >= 0 /\ a.T_dP.isnum /\ t <= a.T_dP.v

LoadOn(t, a) == t >= 0 /\ a.T_dP.isnum /\ t < a.T_dP.v

(* fder(t, x).  With J = 2*H*Sg/Ω0^2, Ω = 2πf and Ω0 = 2πf0,               *)
(*   f_dot = (ΔP/(J*Ω))/(2π) = ΔP*f0^2/(2*H*Sg*f),                         *)
(* so π cancels; J*Ω is zero exactly when 2*H*Sg*f is.                     *)
fder(t, x, a, k) ==
    LET f         == x[1]
        Df        == f - f0 * Scale
        P_fcr     == IF a.fcr_lag THEN x[2] ELSE -KDf(k, Df)
        P_fcr_dot == IF a.fcr_lag /\ a.T_fcr # 0
                     THEN (-KDf(k, Df) - x[2]) \div a.T_fcr ELSE 0
        P_load    == IF LoadOn(t, a) THEN a.dP_load ELSE 0
        DP        == -P_load + P_fcr
        JOmega    == 2 * a.H * Sg * f
        f_dot     == IF JOmega # 0 THEN (DP * f0 * f0 * Scale) \div JOmega ELSE 0
    IN  [t      |-> t,
         exc    |-> IF LoadRaises(t, a) THEN "TypeError" ELSE "",
         finite |-> JOmega # 0 /\ (a.fcr_lag => a.T_fcr # 0),
         P_load |-> P_load,
         x_dot  |-> IF a.fcr_lag THEN <<f_dot, P_fcr_dot>> ELSE <<f_dot>>]

(* One step of the integrator from (t, x).  solve_ivp is a library: what   *)
(* is kept of it is that the step never exceeds max_step, that the last    *)
(* sample falls on t_fin, and that the implicit method (BDF) evaluates the *)
(* right-hand side at the new time; the new state is x + h*x_dot.  Before  *)
(* the load step the derivative is zero, so the step sequence does not     *)
(* depend on the parameters; the samples t_ini + k*max_step straddle t = 0 *)
(* (-0.01 s, then 0.10 s) and end exactly on t_fin.                        *)
StepTo(t) == IF t + max_step > t_finT THEN t_finT ELSE t + max_step

Advance(t, x, e) ==
    [i \in 1..Len(x) |-> x[i] + ((StepTo(t) - t) * e.x_dot[i]) \div TimeScale]

(* find_nadir(f): (i_nadir, f_nadir), <<>> standing for (None, None).      *)
(* np.argmin gives the first index of the minimum; indices are 0-based.    *)
argmin(f) == (CHOOSE i \in 1..Len(f) :
                 /\ f[i] = SeqMin(f)
                 /\ \A j \in 1..(i-1) : f[j] # SeqMin(f)) - 1

find_nadir_strict(f) ==
    LET i_min == argmin(f)
    IN  IF i_min < Len(f) - 1 /\ i_min > 0 /\ f[i_min + 1] < Last(f) - NadirMargin
        THEN <<i_min, f[i_min + 1]>>
        ELSE <<>>

find_nadir_nomargin(f) ==
    LET i_min == argmin(f)
    IN  IF i_min < Len(f) - 1 /\ i_min > 0
        THEN <<i_min, f[i_min + 1]>>
        ELSE <<>>

find_nadir(f) ==
    LET i_min == argmin(f)
    IN  IF i_min < Len(f) - 1 /\ i_min > 0 /\ f[i_min + 1] <= Last(f) - NadirMargin
        THEN <<i_min, f[i_min + 1]>>
        ELSE <<>>

---------------------------------------------------------------------------
(* freq_response_interact: the option is mapped to a duration; for any     *)
(* other option a ValueError object is built but not raised, so T_ΔP keeps *)
(* the option string.                                                      *)
resolve_T_dP(opt) ==
    IF opt = "permanent" THEN Num(t_finT)
    ELSE IF opt = "4 s" THEN Num(FourSeconds * TimeScale)
    ELSE Str

NoArgs == [opt |-> "", caller |-> "", dP_load |-> 0, T_dP |-> Num(0), H |-> 1,
           s |-> 1, T_fcr |-> 1, fcr |-> FALSE, fcr_lag |-> FALSE]
NoEval == [t |-> t_iniT, exc |-> "", finite |-> TRUE, P_load |-> 0, x_dot |-> <<>>]
NoRet  == [t |-> <<>>, f |-> <<>>, P_fcr |-> <<>>, f_lim |-> 0]
NoFig  == [P_load |-> <<>>, nadir |-> <<>>, blackout |-> FALSE]

Init ==
    /\ pc = "idle"
    /\ args = NoArgs
    /\ K = [num |-> 0, den |-> 1]
    /\ f_lim = 0
    /\ sol_t = <<>>
    /\ sol_y = <<>>
    /\ success = FALSE
    /\ last_eval = NoEval
    /\ ret = NoRet
    /\ err = ""
    /\ fig = NoFig
    /\ f_in = <<>>
    /\ nadir_out = <<>>

(* The call freq_response_interact(ΔP_load, H, s, T_fcr, fcr, fcr_lag, T_ΔP=opt), up to *)
(* its call of sim_freq_response.                                          *)
freq_response_interact ==
    /\ pc = "idle"
    /\ \E dP \in LoadSteps, H \in Hs, s \in Droops, T \in Tfcrs,
          fcr \in BOOLEAN, lag \in BOOLEAN, opt \in Options :
          args' = [opt |-> opt, caller |-> "interact", dP_load |-> dP,
                   T_dP |-> resolve_T_dP(opt), H |-> H, s |-> s, T_fcr |-> T,
                   fcr |-> fcr, fcr_lag |-> lag]
    /\ pc' = "sim"
    /\ UNCHANGED <<K, f_lim, sol_t, sol_y, success, last_eval, ret, err, fig,
                   f_in, nadir_out>>

(* A direct call sim_freq_response(ΔP_load, np.inf, H, s, T_fcr, fcr, fcr_lag) *)
sim_freq_response_call ==
    /\ pc = "idle"
    /\ \E dP \in LoadSteps, H \in Hs, s \in Droops, T \in Tfcrs,
          fcr \in BOOLEAN, lag \in BOOLEAN :
          args' = [opt |-> "", caller |-> "direct", dP_load |-> dP,
                   T_dP |-> Num(Inf), H |-> H, s |-> s, T_fcr |-> T,
                   fcr |-> fcr, fcr_lag |-> lag]
    /\ pc' = "sim"
    /\ UNCHANGED <<K, f_lim, sol_t, sol_y, success, last_eval, ret, err, fig,
                   f_in, nadir_out>>

(* sim_freq_response, constants and initial conditions: K = Sg/(f0*s)      *)
(* raises ZeroDivisionError for s = 0 (Python numbers).                    *)
sim_setup_raises ==
    /\ pc = "sim"
    /\ args.fcr /\ f0 * args.s = 0
    /\ pc' = "raised"
    /\ err' = "ZeroDivisionError"
    /\ UNCHANGED <<args, K, f_lim, sol_t, sol_y, success, last_eval, ret, fig,
                   f_in, nadir_out>>

sim_setup ==
    /\ pc = "sim"
    /\ ~(args.fcr /\ f0 * args.s = 0)
    /\ K' = Kgain(args)
    /\ f_lim' = f_limit(args, Kgain(args))
    /\ sol_t' = <<t_iniT>>
    /\ sol_y' = <<x_ini(args)>>
    /\ pc' = "solve_ivp"
    /\ UNCHANGED <<args, success, last_eval, ret, err, fig, f_in, nadir_out>>

(* solve_ivp: the integrator first evaluates the right-hand side at        *)
(* (t_ini, x_ini).                                                         *)
solve_ivp_begin ==
    /\ pc = "solve_ivp"
    /\ last_eval' = fder(t_iniT, Last(sol_y), args, K)
    /\ pc' = IF last_eval'.finite THEN "stepping" ELSE "nonfinite"
    /\ UNCHANGED <<args, K, f_lim, sol_t, sol_y, success, ret, err, fig,
                   f_in, nadir_out>>

(* A nan/inf derivative: the integrator either raises (its linear algebra  *)
(* rejects non-finite input) or gives up with an unsuccessful status and   *)
(* the samples it has.                                                     *)
solve_ivp_nonfinite_raises ==
    /\ pc = "nonfinite"
    /\ pc' = "raised"
    /\ err' = "ValueError: non-finite"
    /\ UNCHANGED <<args, K, f_lim, sol_t, sol_y, success, last_eval, ret, fig,
                   f_in, nadir_out>>

solve_ivp_nonfinite_fails ==
    /\ pc = "nonfinite"
    /\ success' = FALSE
    /\ pc' = "solved"
    /\ UNCHANGED <<args, K, f_lim, sol_t, sol_y, last_eval, ret, err, fig,
                   f_in, nadir_out>>

(* One step: fder is evaluated at the new time.  An exception of fder      *)
(* propagates out of solve_ivp.                                            *)
solve_ivp_step_raises ==
    /\ pc = "stepping"
    /\ Last(sol_t) < t_finT
    /\ LET e == fder(StepTo(Last(sol_t)), Last(sol_y), args, K)
       IN  /\ e.exc # ""
           /\ err' = e.exc
    /\ pc' = "raised"
    /\ UNCHANGED <<args, K, f_lim, sol_t, sol_y, success, last_eval, ret, fig,
                   f_in, nadir_out>>

(* The frequency cannot cross the singularity f = 0 of the swing equation: *)
(* the step size collapses and the integrator stops with status failed,    *)
(* keeping the samples before it.                                          *)
solve_ivp_step_fails ==
    /\ pc = "stepping"
    /\ Last(sol_t) < t_finT
    /\ LET e == fder(StepTo(Last(sol_t)), Last(sol_y), args, K)
       IN  /\ e.exc = ""
           /\ Advance(Last(sol_t), Last(sol_y), e)[1] <= 0
           /\ last_eval' = e
    /\ success' = FALSE
    /\ pc' = "solved"
    /\ UNCHANGED <<args, K, f_lim, sol_t, sol_y, ret, err, fig, f_in, nadir_out>>

solve_ivp_step ==
    /\ pc = "stepping"
    /\ Last(sol_t) < t_finT
    /\ LET e == fder(StepTo(Last(sol_t)), Last(sol_y), args, K)
       IN  /\ e.exc = ""
           /\ Advance(Last(sol_t), Last(sol_y), e)[1] > 0
           /\ last_eval' = e
           /\ sol_t' = Append(sol_t, StepTo(Last(sol_t)))
           /\ sol_y' = Append(sol_y, Advance(Last(sol_t), Last(sol_y), e))
    /\ UNCHANGED <<pc, args, K, f_lim, success, ret, err, fig, f_in, nadir_out>>

solve_ivp_finish ==
    /\ pc = "stepping"
    /\ Last(sol_t) = t_finT
    /\ success' = TRUE
    /\ pc' = "solved"
    /\ UNCHANGED <<args, K, f_lim, sol_t, sol_y, last_eval, ret, err, fig,
                   f_in, nadir_out>>

(* sim_freq_response, extraction of the output: sol.success is not read.   *)
sim_output ==
    [t     |-> sol_t,
     f     |-> [i \in 1..Len(sol_y) |-> sol_y[i][1]],
     P_fcr |-> [i \in 1..Len(sol_y) |->
                  IF args.fcr_lag THEN sol_y[i][2]
                  ELSE -KDf(K, sol_y[i][1] - f0 * Scale)],
     f_lim |-> f_lim]

sim_return_checked ==
    /\ pc = "solved"
    /\ IF success
       THEN /\ ret' = sim_output
            /\ pc' = IF args.caller = "interact" THEN "plot" ELSE "done"
            /\ err' = err
       ELSE /\ ret' = ret
            /\ pc' = "raised"
            /\ err' = "RuntimeError: integration failed"
    /\ UNCHANGED <<args, K, f_lim, sol_t, sol_y, success, last_eval, fig,
                   f_in, nadir_out>>

sim_return ==
    /\ pc = "solved"
    /\ ret' = sim_output
    /\ pc' = IF args.caller = "interact" THEN "plot" ELSE "done"
    /\ UNCHANGED <<args, K, f_lim, sol_t, sol_y, success, last_eval, err, fig,
                   f_in, nadir_out>>

(* plot_freq_response: the load-excess curve, the nadir and the blackout   *)
(* test.  Comparing the time array with a str raises TypeError.            *)
P_load_curve(t, a) ==
    [i \in 1..Len(t) |-> IF t[i] < 0 \/ t[i] > a.T_dP.v THEN 0 ELSE a.dP_load]

plot_raises ==
    /\ pc = "plot"
    /\ ~args.T_dP.isnum
    /\ pc' = "raised"
    /\ err' = "TypeError"
    /\ UNCHANGED <<args, K, f_lim, sol_t, sol_y, success, last_eval, ret, fig,
                   f_in, nadir_out>>

plot_freq_response ==
    /\ pc = "plot"
    /\ args.T_dP.isnum
    /\ fig' = [P_load   |-> P_load_curve(ret.t, args),
               nadir    |-> find_nadir(ret.f),
               blackout |-> Last(ret.f) < BlackoutLevel]
    /\ pc' = "done"
    /\ UNCHANGED <<args, K, f_lim, sol_t, sol_y, success, last_eval, ret, err,
                   f_in, nadir_out>>

Next ==
    \/ freq_response_interact
    \/ sim_freq_response_call
    \/ sim_setup_raises
    \/ sim_setup
    \/ solve_ivp_begin
    \/ solve_ivp_nonfinite_raises
    \/ solve_ivp_nonfinite_fails
    \/ solve_ivp_step_raises
    \/ solve_ivp_step_fails
    \/ solve_ivp_step
    \/ solve_ivp_finish
    \/ sim_return
    \/ plot_raises
    \/ plot_freq_response

Spec == Init /\ [][Next]_vars

---------------------------------------------------------------------------
(* A stand-alone call of find_nadir on a frequency vector *)
FreqVectors == UNION {[1..n -> 0..MaxVal] : n \in 1..MaxLen}

InitNadir ==
    /\ pc = "find_nadir"
    /\ f_in \in FreqVectors
    /\ nadir_out = <<>>
    /\ args = NoArgs
    /\ K = [num |-> 0, den |-> 1]
    /\ f_lim = 0
    /\ sol_t = <<>>
    /\ sol_y = <<>>
    /\ success = FALSE
    /\ last_eval = NoEval
    /\ ret = NoRet
    /\ err = ""
    /\ fig = NoFig

find_nadir_call ==
    /\ pc = "find_nadir"
    /\ nadir_out' = find_nadir(f_in)
    /\ pc' = "find_nadir_done"
    /\ UNCHANGED <<args, K, f_lim, sol_t, sol_y, success, last_eval, ret, err,
                   fig, f_in>>

NextNadir == find_nadir_call

SpecNadir == InitNadir /\ [][NextNadir]_vars

---------------------------------------------------------------------------
(* Properties *)

Returned == pc \in {"plot", "done"} \/ (pc = "raised" /\ ret # NoRet)
IntegratorInvoked == Len(sol_t) > 0
Recognized == {"permanent", "4 s"}

(* C1: a load-step-duration option other than 'permanent' or '4 s' ends    *)
(* freq_response_interact in an error before the simulation begins:        *)
(* sim_freq_response and the integrator are never invoked with it.         *)
C1_UnrecognizedOptionRejected ==
    (args.caller = "interact" /\ args.opt \notin Recognized)
        => (pc = "raised" /\ err = "ValueError" /\ ~IntegratorInvoked)

(* C2: with non-positive H, s or T_fcr sim_freq_response reports an        *)
(* invalid-parameter error and the integrator is never invoked.            *)
C2_NonPositiveRejected ==
    (args.caller # "" /\ ~DocumentedDomain(args))
        => /\ ~IntegratorInvoked
           /\ pc \in {"sim", "raised"}
           /\ pc = "raised" => err = "ValueError: invalid parameter"

(* C3 as stated: when the integrator is unsuccessful, sim_freq_response    *)
(* never returns its partial trajectory as a normal result (stated here    *)
(* for the parameter sets of the documented domain).                       *)
C3_FailureNeverReturned == (Returned /\ DocumentedDomain(args)) => success

(* C3 amended: sim_freq_response does not read the integrator's status;    *)
(* after an unsuccessful integration it returns normally, with the samples *)
(* the integrator produced, which stop before t_fin.                       *)
C3_FailureReturnedAsResult ==
    [][(pc = "solved" /\ ~success)
          => /\ pc' \in {"plot", "done"}
             /\ err' = ""
             /\ ret'.t = sol_t
             /\ Len(ret'.f) = Len(sol_t)
             /\ Len(ret'.P_fcr) = Len(sol_t)
             /\ Last(ret'.t) < t_finT]_vars

C3_Witness ==
    /\ pc \in {"plot", "done"}
    /\ ~success
    /\ Len(ret.t) > 1
    /\ Last(ret.t) < t_finT

(* Vocabulary of the nadir claims, on the argument of find_nadir *)
MinValue(f) == SeqMin(f)
MinPlaces(f) == {i \in 1..Len(f) : f[i] = MinValue(f)}
FirstMinPlace(f) == CHOOSE i \in MinPlaces(f) : \A j \in MinPlaces(f) : i <= j
NonIncreasing(f) == \A i \in 1..(Len(f) - 1) : f[i] >= f[i + 1]
NonDecreasing(f) == \A i \in 1..(Len(f) - 1) : f[i] <= f[i + 1]
(* the minimum is attained strictly between the endpoints and at no endpoint *)
MinStrictlyInside(f) == MinPlaces(f) # {} /\ MinPlaces(f) \subseteq 2..(Len(f) - 1)

(* C4: a sequence whose minimum lies strictly between its endpoints and    *)
(* whose final value is at least 0.001 above it yields that minimum's      *)
(* (0-based) index and value; a monotone sequence, flat runs included,     *)
(* yields (None, None).                                                    *)
C4_NadirTest ==
    pc = "find_nadir_done" =>
        /\ (MinStrictlyInside(f_in) /\ Last(f_in) >= MinValue(f_in) + NadirMargin)
              => nadir_out = <<FirstMinPlace(f_in) - 1, MinValue(f_in)>>
        /\ (NonIncreasing(f_in) \/ NonDecreasing(f_in)) => nadir_out = <<>>

C4_Witness ==
    /\ pc = "find_nadir_done"
    /\ MinStrictlyInside(f_in)
    /\ Last(f_in) = MinValue(f_in) + NadirMargin
    /\ nadir_out = <<FirstMinPlace(f_in) - 1, MinValue(f_in)>>

(* C5 as stated: a nadir is reported exactly when the first minimum is not *)
(* the first sample, not the last sample, and the minimum is AT MOST 0.001 *)
(* below the final value.                                                  *)
C5_AtMostMargin ==
    pc = "find_nadir_done" =>
        (nadir_out # <<>> <=>
            /\ FirstMinPlace(f_in) > 1
            /\ FirstMinPlace(f_in) < Len(f_in)
            /\ Last(f_in) - MinValue(f_in) <= NadirMargin)

(* C5 amended: ... and the minimum is AT LEAST 0.001 below the final       *)
(* value; the nadir reported is then the first minimum's index and value.  *)
C5_AtLeastMargin ==
    pc = "find_nadir_done" =>
        /\ nadir_out # <<>> <=>
              /\ FirstMinPlace(f_in) > 1
              /\ FirstMinPlace(f_in) < Len(f_in)
              /\ Last(f_in) - MinValue(f_in) >= NadirMargin
        /\ nadir_out # <<>> => nadir_out = <<FirstMinPlace(f_in) - 1, MinValue(f_in)>>

C5_Witness ==
    /\ pc = "find_nadir_done"
    /\ FirstMinPlace(f_in) > 1
    /\ Last(f_in) - MinValue(f_in) > NadirMargin
    /\ nadir_out # <<>>

(* Scenario B: load_step_pu = 0.1, H = 1, droop = 0.10, regulation on, no lag *)
ScenarioB ==
    /\ args.dP_load = Scale \div 10
    /\ args.H = 1
    /\ args.s = 10
    /\ args.fcr
    /\ ~args.fcr_lag

(* the floor f0 - ΔP_load/K with K = Sg/(f0*s), i.e. f0 - ΔP_load*f0*s/Sg *)
DroopFloor == f0 * Scale - (args.dP_load * f0 * args.s) \div (Sg * PerCent)

(* C6 as stated: with regulation enabled K = Sg/(f0*s) and the floor is    *)
(* f0 - ΔP_load/K; for Scenario B the returned floor is 49.95 Hz.          *)
C6_ScenarioB_49_95 ==
    (Returned /\ args.fcr) =>
        /\ K.num * f0 * args.s = K.den * Sg * PerCent
        /\ ret.f_lim = DroopFloor
        /\ ScenarioB => ret.f_lim = 49950

(* C6 amended: ... for Scenario B the returned floor is 49.5 Hz.           *)
C6_ScenarioB_49_5 ==
    (Returned /\ args.fcr) =>
        /\ K.num * f0 * args.s = K.den * Sg * PerCent
        /\ ret.f_lim = DroopFloor
        /\ ScenarioB => ret.f_lim = 49500

C6_Witness ==
    /\ pc = "done"
    /\ ScenarioB
    /\ ret.f_lim = 49500

(* C7: with regulation disabled, for both values of fcr_lag and every load *)
(* step, the floor is 0 and the returned regulation power is 0 at every    *)
(* sample; the lag flag is inert: the run with the other value of fcr_lag  *)
(* starts from the corresponding state and, from the state corresponding   *)
(* to each state of this run, meets the same exception or failure or makes *)
(* the step to the corresponding state, so that both runs return the same  *)
(* times and frequencies.  Checked for the parameter sets of the           *)
(* documented domain.                                                      *)
OtherLag == [args EXCEPT !.fcr_lag = ~@]
(* the state of the other variant that corresponds to state x of this one *)
Corresponding(x) == IF args.fcr_lag THEN <<x[1]>> ELSE <<x[1], 0>>

C8_LoadWindow ==
    (args.caller # "" /\ args.dP_load # 0 /\ args.T_dP.isnum) =>
        /\ last_eval.P_load # 0 <=> (0 <= last_eval.t /\ last_eval.t < args.T_dP.v)
        /\ last_eval.P_load # 0 => last_eval.P_load = args.dP_load

C8_Witness ==
    /\ args.dP_load # 0
    /\ args.T_dP.isnum
    /\ 0 <= last_eval.t
    /\ last_eval.t < args.T_dP.v
    /\ last_eval.P_load = args.dP_load

(* C9: the load-excess curve of plot_freq_response equals, at every sample *)
(* time (t = T_ΔP included), the load term fder applies at that time.      *)
C9_PlotMatchesDynamics ==
    pc = "done" =>
        \A i \in 1..Len(fig.P_load) :
            fig.P_load[i] = fder(ret.t[i], sol_y[i], args, K).P_load

(* C10: the initial state is an equilibrium of the pre-event dynamics: at  *)
(* every evaluation of fder with t < 0 the derivative is zero in every     *)
(* component, and every sample with time <= 0 has frequency 50 Hz and      *)
(* regulation power 0, for both state-vector variants.  Checked for the    *)
(* parameter sets of the documented domain.                                *)
C10_PreEventEquilibrium ==
    (args.caller # "" /\ DocumentedDomain(args)) =>
        /\ (last_eval.t < 0 /\ last_eval # NoEval) =>
              /\ last_eval.finite
              /\ Len(last_eval.x_dot) = (IF args.fcr_lag THEN 2 ELSE 1)
              /\ \A i \in 1..Len(last_eval.x_dot) : last_eval.x_dot[i] = 0
        /\ \A i \in 1..Len(sol_t) : sol_t[i] <= 0 =>
              /\ sol_y[i][1] = f0 * Scale
              /\ args.fcr_lag => sol_y[i][2] = 0
        /\ \A i \in 1..Len(ret.t) : ret.t[i] <= 0 =>
              /\ ret.f[i] = f0 * Scale
              /\ ret.P_fcr[i] = 0

C10_Witness ==
    /\ pc = "done"
    /\ DocumentedDomain(args)
    /\ args.fcr
    /\ args.fcr_lag
    /\ Len(ret.t) > 2
    /\ ret.t[2] < 0
    /\ ret.f[2] = f0 * Scale
    /\ ret.P_fcr[2] = 0
    /\ Last(ret.P_fcr) # 0

====
